---------------------------- MODULE Spec2Model ----------------------------
(***************************************************************************)
(* The casino-chips notebooks (src/1_casino-chips.ipynb) as state machines. *)
(*                                                                         *)
(* A notebook builds a mixed-integer model cell by cell: variables,        *)
(* an objective, rows (linear constraints), and solves.  The state is the  *)
(* model object (its variable families, rows and objective), the values    *)
(* the variables currently hold (x, y) with the solver's verdict on them,  *)
(* and the notebook's position.  One action per code cell; a cell that     *)
(* ends in a solve contains the solve.  The solver is a black box that     *)
(* returns an assignment that satisfies every row and the variable bounds  *)
(* and has the best objective; here it searches a finite set of candidate  *)
(* assignments, and the action Examine lets it hold any one candidate and  *)
(* report whether the model accepts it.                                    *)
(*                                                                         *)
(* Amounts with a fractional part are kept as integers: ingredient rows in *)
(* half units (Half), rows with a fraction of a total multiplied through.  *)
(***************************************************************************)
EXTENDS Integers, Sequences, FiniteSets, TLC

VARIABLES pc, mvars, constrs, objective, x, y, status, z, chips_data

vars == <<pc, mvars, constrs, objective, x, y, status, z, chips_data>>

(***************************************************************************)
(* Bounds of the search.                                                   *)
(***************************************************************************)
\* candidates are at most this many single-chip changes away from the recorded optimum
Radius == 4
\* largest quantity tried for a plan that makes a single chip type
MaxQty == 505
\* the lot size of the plans that make a type or do not
Lot == 10

(***************************************************************************)
(* Data: chips and values, ingredients on hand, recipes.                   *)
(***************************************************************************)
chips == <<"one", "five", "ten", "twenty-five", "one hundred", "five hundred", "thousand">>

Chips == {chips[k] : k \in 1..Len(chips)}

value ==
  "one" :> 1 @@ "five" :> 5 @@ "ten" :> 10 @@ "twenty-five" :> 25 @@
  "one hundred" :> 100 @@ "five hundred" :> 500 @@ "thousand" :> 1000

ingredients == <<"clay", "lead", "silver", "gold">>

Ingredients == {ingredients[k] : k \in 1..Len(ingredients)}

\* the lead limit as the text of the first notebook states it
on_hand_text == "clay" :> 5000 @@ "lead" :> 1500 @@ "silver" :> 100 @@ "gold" :> 20

on_hand == "clay" :> 5000 @@ "lead" :> 1800 @@ "silver" :> 100 @@ "gold" :> 20

\* recipes are stored in half units: lead needs 4.5, 8.5 and 9.5 per chip
Half == 2

Amounts(clay, lead, silver, gold) ==
  "clay" :> clay @@ "lead" :> lead @@ "silver" :> silver @@ "gold" :> gold

\* recipes[c][i] = Half * (the amount of ingredient i in one chip c)
recipes ==
  "one"          :> Amounts(36,  0, 0, 0) @@
  "five"         :> Amounts(34,  4, 0, 0) @@
  "ten"          :> Amounts(32,  6, 0, 0) @@
  "twenty-five"  :> Amounts(26,  9, 0, 0) @@
  "one hundred"  :> Amounts(20, 12, 2, 0) @@
  "five hundred" :> Amounts(20, 17, 4, 0) @@
  "thousand"     :> Amounts(20, 19, 0, 4)

high_chips == {"one hundred", "five hundred", "thousand"}

low_chips == {c \in Chips : c \notin high_chips}

\* the big-M of the linking rows
M == 500

(***************************************************************************)
(* Linear expressions and rows.                                            *)
(***************************************************************************)
Zero == [c \in Chips |-> 0]

Unit(c) == [d \in Chips |-> IF d = c THEN 1 ELSE 0]

Scaled(k, w) == [c \in Chips |-> k * w[c]]

Plus(v, w) == [c \in Chips |-> v[c] + w[c]]

\* x.prod(w): the sum over the chips of w[c] * v[c]
prod(w, v) ==
  w["one"] * v["one"] + w["five"] * v["five"] + w["ten"] * v["ten"]
  + w["twenty-five"] * v["twenty-five"] + w["one hundred"] * v["one hundred"]
  + w["five hundred"] * v["five hundred"] + w["thousand"] * v["thousand"]

\* a linear expression over the x and y variables
Expr(cx, cy) == [cx |-> cx, cy |-> cy]

Eval(e, vx, vy) == prod(e.cx, vx) + prod(e.cy, vy)

\* a row: expression, sense, right-hand side
Row(name, key, e, sense, rhs) ==
  [name |-> name, key |-> key, e |-> e, sense |-> sense, rhs |-> rhs]

\* does the assignment satisfy the row
Holds(r, vx, vy) ==
  LET lhs == Eval(r.e, vx, vy)
  IN  CASE r.sense = "<=" -> lhs <= r.rhs
        [] r.sense = ">=" -> lhs >= r.rhs
        [] OTHER          -> lhs = r.rhs

\* variables without the lower bound 0
BoundsFree(mv, vx, vy) ==
  "make" \in mv => \A c \in Chips : vy[c] \in {0, 1}

\* variable bounds: an INTEGER variable has lower bound 0, a BINARY one is 0 or 1
Bounds(mv, vx, vy) ==
  /\ "chips" \in mv => \A c \in Chips : vx[c] >= 0
  /\ "make" \in mv => \A c \in Chips : vy[c] \in {0, 1}

Feasible(mv, rows, vx, vy) ==
  /\ Bounds(mv, vx, vy)
  /\ \A r \in rows : Holds(r, vx, vy)

(***************************************************************************)
(* Expressions of the notebooks.                                           *)
(***************************************************************************)
total_chips == Expr([c \in Chips |-> 1], Zero)

\* the objective without the values
val_total_chips_count == Expr([c \in Chips |-> 1], Zero)

val_total_chips == Expr(value, Zero)

\* the sum leaves out the last chip of the list
usage_short(i) ==
  Expr([c \in Chips |-> IF c = chips[Len(chips)] THEN 0 ELSE recipes[c][i]], Zero)

\* quicksum(x[c] * recipes[c, i] for c in chips)
usage(i) == Expr([c \in Chips |-> recipes[c][i]], Zero)

\* rows for the last two ingredients of the list only
ingredient_usage_tail(name) ==
  {Row(name, i, usage(i), "<=", Half * on_hand[i]) : i \in {"silver", "gold"}}

\* one row per ingredient: sum_c recipes[c, i] * x[c] <= on_hand[i]
ingredient_usage(name) ==
  {Row(name, i, usage(i), "<=", Half * on_hand[i]) : i \in Ingredients}

(***************************************************************************)
(* The solver.                                                             *)
(***************************************************************************)
Objective(e, sense) == [e |-> e, sense |-> sense]

NoObjective == Objective(Expr(Zero, Zero), "MINIMIZE")

Better(sense, v, w) == IF sense = "MAXIMIZE" THEN v >= w ELSE v <= w

\* the candidates the model accepts
Accepted(cands, mv, rows) == {a \in cands : Feasible(mv, rows, a[1], a[2])}

Best(sense, vals) == CHOOSE v \in vals : \A w \in vals : Better(sense, v, w)

\* model.optimize(): the accepted candidates with the best objective value
Optimal(cands, mv, rows, obj) ==
  LET F == Accepted(cands, mv, rows)
  IN  IF F = {} THEN {}
      ELSE LET top == Best(obj.sense, {Eval(obj.e, a[1], a[2]) : a \in F})
           IN  {a \in F : Eval(obj.e, a[1], a[2]) = top}

\* the values the variables hold after model.optimize()
Solve(cands, mv, rows, obj) ==
  LET sol == Optimal(cands, mv, rows, obj)
  IN  IF sol = {}
      THEN x' = Zero /\ y' = Zero /\ status' = "infeasible"
      ELSE \E a \in sol : x' = a[1] /\ y' = a[2] /\ status' = "optimal"

\* the helper of the second notebook: optimize, then print the result
solve_and_print_solution(cands, mv, rows, obj) == Solve(cands, mv, rows, obj)

\* a model change discards the solution
Unsolved == x' = Zero /\ y' = Zero /\ status' = "loaded"

Idle == status \in {"loaded", "optimal", "infeasible"}

\* The solver holds one candidate assignment and reports whether the model
\* accepts it.  No cell runs while a candidate is held.  The verdict does not
\* depend on the values held before, so of the optimal assignments a solve may
\* return, one is the state a candidate is taken up from.
Examine(cands) ==
  /\ "chips" \in mvars
  /\ \/ status \in {"loaded", "infeasible"}
     \/ /\ status = "optimal"
        /\ <<x, y>> = (CHOOSE a \in Optimal(cands, mvars, constrs, objective) : TRUE)
  /\ \E a \in cands :
       /\ x' = a[1]
       /\ y' = IF "make" \in mvars THEN a[2] ELSE Zero
       /\ status' = IF Feasible(mvars, constrs, a[1], a[2]) THEN "feasible" ELSE "rejected"
  /\ UNCHANGED <<pc, mvars, constrs, objective, z, chips_data>>

(***************************************************************************)
(* Candidate assignments.                                                  *)
(***************************************************************************)
\* the recorded solution of the original model
recorded ==
  "one" :> 38 @@ "five" :> 1 @@ "ten" :> 0 @@ "twenty-five" :> 284 @@
  "one hundred" :> 0 @@ "five hundred" :> 50 @@ "thousand" :> 10

\* the plans one chip more or one chip less than a plan of P
Step(P) ==
  P \cup {Plus(v, Unit(c)) : v \in P, c \in Chips}
    \cup {Plus(v, Scaled(0 - 1, Unit(c))) : v \in P, c \in Chips}

RECURSIVE Within(_)
Within(r) == IF r = 0 THEN {recorded} ELSE Step(Within(r - 1))

\* the plans at most Radius single-chip changes away from the recorded solution
NearRecorded == Within(Radius)

SingleType == {Scaled(n, Unit(c)) : c \in Chips, n \in 0..MaxQty}

\* plans that make Lot chips of some types and none of the others
Lots == {Scaled(Lot, m) : m \in [Chips -> {0, 1}]}

\* candidates of a model without y variables
Plans == {<<vx, Zero>> : vx \in NearRecorded \cup SingleType \cup Lots}

\* candidates of a model with y variables: each type made or not, each y free
MakeOrNot == Lots \X [Chips -> {0, 1}]

Candidates(mv) == IF "make" \in mv THEN MakeOrNot ELSE Plans

NoData == [demand |-> Zero, cost |-> Zero, fixed_cost |-> Zero]

(***************************************************************************)
(* First notebook: model "Chip Manufacturing".                             *)
(***************************************************************************)
HelloInit ==
  /\ pc = "Model"
  /\ mvars = {}
  /\ constrs = {}
  /\ objective = NoObjective
  /\ x = Zero
  /\ y = Zero
  /\ status = "loaded"
  /\ z = 0
  /\ chips_data = NoData

\* x = model.addVars(chips, vtype = GRB.INTEGER, name = "chips")
HelloAddVars ==
  /\ pc = "Model" /\ Idle
  /\ pc' = "addVars"
  /\ mvars' = mvars \cup {"chips"}
  /\ Unsolved
  /\ UNCHANGED <<constrs, objective, z, chips_data>>

\* setObjective written term by term
HelloObjectiveTerms ==
  /\ pc = "addVars" /\ Idle
  /\ pc' = "setObjective"
  /\ objective' = Objective(val_total_chips, "MAXIMIZE")
  /\ Unsolved
  /\ UNCHANGED <<mvars, constrs, z, chips_data>>

\* setObjective with quicksum, then with x.prod(value)
HelloObjectiveProd ==
  /\ pc = "setObjective" /\ Idle
  /\ pc' = "prod"
  /\ objective' = Objective(Expr(value, Zero), "MAXIMIZE")
  /\ Unsolved
  /\ UNCHANGED <<mvars, constrs, z, chips_data>>

\* the four rows written out: "clay limit", "lead limit", "gold limit", "silver limit"
HelloLimits ==
  /\ pc = "prod" /\ Idle
  /\ pc' = "limits"
  /\ constrs' = constrs \cup {Row(i \o " limit", i, usage(i), "<=", Half * on_hand[i]) :
                               i \in Ingredients}
  /\ Unsolved
  /\ UNCHANGED <<mvars, objective, z, chips_data>>

\* for ingredient in ingredients: model.addConstr(..., name="ingredients usage")
HelloLoop ==
  /\ pc = "limits" /\ Idle
  /\ pc' = "loop"
  /\ constrs' = constrs \cup ingredient_usage("ingredients usage")
  /\ Unsolved
  /\ UNCHANGED <<mvars, objective, z, chips_data>>

\* balance_constraints = model.addConstrs(..., name="ingredients usage")
HelloBalance ==
  /\ pc = "loop" /\ Idle
  /\ pc' = "balance_constraints"
  /\ constrs' = constrs \cup ingredient_usage("ingredients usage[]")
  /\ Unsolved
  /\ UNCHANGED <<mvars, objective, z, chips_data>>

\* model.optimize()
HelloOptimize ==
  /\ pc = "balance_constraints" /\ Idle
  /\ pc' = "optimize"
  /\ Solve(Candidates(mvars), mvars, constrs, objective)
  /\ UNCHANGED <<mvars, constrs, objective, z, chips_data>>

HelloNext ==
  \/ HelloAddVars
  \/ HelloObjectiveTerms
  \/ HelloObjectiveProd
  \/ HelloLimits
  \/ HelloLoop
  \/ HelloBalance
  \/ HelloOptimize
  \/ Examine(Candidates(mvars))

SpecHello == HelloInit /\ [][HelloNext]_vars

(***************************************************************************)
(* Second notebook, first model "Poker Chips": the original model and the  *)
(* changes made to it.  The notebook reads its data from csv files; the    *)
(* amounts on hand, the recipes and the values are those of the first      *)
(* notebook, which the recorded output of the original model agrees with.  *)
(* demand, cost and fixed_cost are columns of data_files/chips_data.csv:   *)
(* the file is an input, drawn from ChipsDataInputs (the fixed cost of a   *)
(* ten is 30).  Cells that only define or print an expression are left     *)
(* out: they do not touch the model.                                       *)
(***************************************************************************)
ChipsData(demand, cost, fixed_cost) ==
  [demand |-> demand, cost |-> cost, fixed_cost |-> fixed_cost]

ByGroup(low, high) == [c \in Chips |-> IF c \in high_chips THEN high ELSE low]

ChipsDataInputs ==
  { ChipsData(Zero, ByGroup(1, 1), ByGroup(30, 30)),
    ChipsData(ByGroup(5, 0), ByGroup(1, 2), ByGroup(30, 60)) }

Sum(a, b) == Expr(Plus(a.cx, b.cx), Plus(a.cy, b.cy))

\* sum(chips_data.cost[c] * x[c] for c in chips)
vCost_all_chips == Expr(chips_data.cost, Zero)

\* gp.quicksum(chips_data.fixed_cost[c] * y[c] for c in chips)
fCost_all_chips == Expr(Zero, chips_data.fixed_cost)

tCost_all_chips == Sum(vCost_all_chips, fCost_all_chips)

\* x[c] >= chips_data.demand[c] for c in chips
meet_demand ==
  {Row("meet_demand", c, Expr(Unit(c), Zero), ">=", chips_data.demand[c]) : c \in Chips}

\* the linking row without its y term: x[c] <= M
link_x_only ==
  {Row("link_x_y", c, Expr(Unit(c), Zero), "<=", M) : c \in Chips}

\* x[c] <= M * y[c] for c in chips
link_x_y ==
  {Row("link_x_y", c, Expr(Unit(c), Scaled(0 - M, Unit(c))), "<=", 0) : c \in Chips}

\* y.sum()
y_sum == Expr(Zero, [c \in Chips |-> 1])

OrigInit ==
  /\ pc = "data"
  /\ mvars = {}
  /\ constrs = {}
  /\ objective = NoObjective
  /\ x = Zero
  /\ y = Zero
  /\ status = "loaded"
  /\ z = 0
  /\ chips_data \in ChipsDataInputs

\* "Original model": new model, x, ingredient_usage, objective, solve
OriginalModel ==
  /\ pc = "data" /\ Idle
  /\ pc' = "original"
  /\ mvars' = {"chips"}
  /\ constrs' = ingredient_usage("ingredient_usage")
  /\ objective' = Objective(val_total_chips, "MAXIMIZE")
  /\ solve_and_print_solution(Candidates(mvars'), mvars', constrs', objective')
  /\ UNCHANGED <<z, chips_data>>

\* the objective set on a model that has lost its rows
MaximizeChipsAfresh ==
  /\ pc = "original" /\ Idle
  /\ pc' = "total_chips"
  /\ constrs' = {}
  /\ objective' = Objective(total_chips, "MAXIMIZE")
  /\ solve_and_print_solution(Candidates(mvars), mvars, constrs', objective')
  /\ UNCHANGED <<mvars, z, chips_data>>

\* model.setObjective(total_chips, GRB.MAXIMIZE), solve
MaximizeChips ==
  /\ pc = "original" /\ Idle
  /\ pc' = "total_chips"
  /\ objective' = Objective(total_chips, "MAXIMIZE")
  /\ solve_and_print_solution(Candidates(mvars), mvars, constrs, objective')
  /\ UNCHANGED <<mvars, constrs, z, chips_data>>

\* meet_demand = model.addConstrs(...), solve
MeetDemand ==
  /\ pc = "total_chips" /\ Idle
  /\ pc' = "meet_demand"
  /\ constrs' = constrs \cup meet_demand
  /\ solve_and_print_solution(Candidates(mvars), mvars, constrs', objective)
  /\ UNCHANGED <<mvars, objective, z, chips_data>>

\* vBudget = model.addConstr(vCost_all_chips <= 80, name='v_budget'), solve
VBudget ==
  /\ pc = "meet_demand" /\ Idle
  /\ pc' = "v_budget"
  /\ constrs' = constrs \cup {Row("v_budget", "", vCost_all_chips, "<=", 80)}
  /\ solve_and_print_solution(Candidates(mvars), mvars, constrs', objective)
  /\ UNCHANGED <<mvars, objective, z, chips_data>>

\* y = model.addVars(chips, vtype=GRB.BINARY, name="make"), the linking rows, update
AddMake ==
  /\ pc = "v_budget" /\ Idle
  /\ pc' = "link_x_y"
  /\ mvars' = mvars \cup {"make"}
  /\ constrs' = constrs \cup link_x_y
  /\ Unsolved
  /\ UNCHANGED <<objective, z, chips_data>>

\* tBudget = model.addConstr(tCost_all_chips <= 280, name='t_budget'), solve
TBudget ==
  /\ pc = "link_x_y" /\ Idle
  /\ pc' = "t_budget"
  /\ constrs' = constrs \cup {Row("t_budget", "", tCost_all_chips, "<=", 280)}
  /\ solve_and_print_solution(Candidates(mvars), mvars, constrs', objective)
  /\ UNCHANGED <<mvars, objective, z, chips_data>>

\* model.remove(meet_demand)
RemoveDemand ==
  /\ pc = "t_budget" /\ Idle
  /\ pc' = "remove"
  /\ constrs' = constrs \ meet_demand
  /\ Unsolved
  /\ UNCHANGED <<mvars, objective, z, chips_data>>

\* min_types: y.sum() >= 3, max_types: y.sum() <= 5, solve
TypesRange ==
  /\ pc = "remove" /\ Idle
  /\ pc' = "types"
  /\ constrs' = constrs \cup {Row("min_types", "", y_sum, ">=", 3),
                              Row("max_types", "", y_sum, "<=", 5)}
  /\ solve_and_print_solution(Candidates(mvars), mvars, constrs', objective)
  /\ UNCHANGED <<mvars, objective, z, chips_data>>

OrigNext ==
  \/ OriginalModel
  \/ MaximizeChips
  \/ MeetDemand
  \/ VBudget
  \/ AddMake
  \/ TBudget
  \/ RemoveDemand
  \/ TypesRange
  \/ Examine(Candidates(mvars))

SpecOriginal == OrigInit /\ [][OrigNext]_vars

(***************************************************************************)
(* Second notebook, "Extra Practice": the model is created again and rows  *)
(* are added and removed.  A row with a fraction of the total is kept with *)
(* integer coefficients (both sides multiplied by 10, 20 or 2).            *)
(***************************************************************************)
Minus(a, b) == Expr(Plus(a.cx, Scaled(0 - 1, b.cx)), Plus(a.cy, Scaled(0 - 1, b.cy)))

Times(k, a) == Expr(Scaled(k, a.cx), Scaled(k, a.cy))

X(c) == Expr(Unit(c), Zero)

Y(c) == Expr(Zero, Unit(c))

Only(S, w) == [c \in Chips |-> IF c \in S THEN w[c] ELSE 0]

val_high_chips == Expr(Only(high_chips, value), Zero)

val_low_chips == Expr(Only(low_chips, value), Zero)

\* gp.quicksum(y[l] for l in low_chips)
y_low == Expr(Zero, Only(low_chips, [c \in Chips |-> 1]))

\* val_high_chips <= .5 * val_low_chips
value_balance ==
  {Row("value_balance", "", Minus(Times(2, val_high_chips), val_low_chips), "<=", 0)}

\* x[l] <= 0.20 * total_chips for l in low_chips
low_chip_ub ==
  {Row("low_chip_ub", l, Minus(Times(10, X(l)), Times(2, total_chips)), "<=", 0) :
     l \in low_chips}

\* x[h] >= 0.05 * total_chips for h in high_chips
high_chip_lb ==
  {Row("high_chip_lb", h, Minus(Times(20, X(h)), total_chips), ">=", 0) : h \in high_chips}

\* x['twenty-five'] >= x[c] for c in C_minus25
max_25 ==
  {Row("max_25", c, Minus(X("twenty-five"), X(c)), ">=", 0) : c \in Chips \ {"twenty-five"}}

\* x[c] <= 0.3 * total_chips for c in chips
percent30 ==
  {Row("percent30", c, Minus(Times(10, X(c)), Times(3, total_chips)), "<=", 0) : c \in Chips}

\* the rows of the cell "Logical constraints"
logical ==
  { Row("at_most_one_high_value", "", Sum(Y("five hundred"), Y("thousand")), "<=", 1),
    Row("exactly_one_high_value", "", Sum(Y("five hundred"), Y("thousand")), "==", 1),
    Row("min_low_value_types", "", y_low, ">=", 2),
    Row("max_low_value_types", "", y_low, "<=", 3),
    Row("max_low_value_types", "range", y_low, ">=", 2),
    Row("max_low_value_types", "range", y_low, "<=", 3) }

\* the rows of the cell "Conditional statements"
conditional ==
  { Row("one_implies_five", "", Minus(Y("one"), Y("five")), "<=", 0),
    Row("one_implies_ten", "", Minus(Y("one"), Y("ten")), "<=", 0),
    Row("one_implies_ten", "and", Minus(Times(2, Y("one")), Sum(Y("five"), Y("ten"))), "<=", 0),
    Row("one_implies_ten", "or", Minus(Y("one"), Sum(Y("five"), Y("ten"))), "<=", 0) }

\* x[c] >= 2 * y[c] for c in high_chips
min_high_value ==
  {Row("min_high_value", c, Minus(X(c), Times(2, Y(c))), ">=", 0) : c \in high_chips}

\* x[c] <= 30 * y[c] for c in high_chips
max_high_value ==
  {Row("max_high_value", c, Minus(X(c), Times(30, Y(c))), "<=", 0) : c \in high_chips}

\* x[c] >= 30 * y[c] for c in low_chips, then x[c] <= M * y[c], both named "min_low_value"
min_low_value ==
  {Row("min_low_value", c, Minus(X(c), Times(30, Y(c))), ">=", 0) : c \in low_chips}
  \cup {Row("min_low_value", c, Minus(X(c), Times(M, Y(c))), "<=", 0) : c \in low_chips}

\* candidate plans: each low chip at one of lows, each high chip at one of highs
Grid(lows, highs) ==
  {[c \in Chips |-> IF c \in high_chips THEN h[c] ELSE l[c]] :
     l \in [low_chips -> lows], h \in [high_chips -> highs]}

PracticePlans == Grid({0, 30}, {0, 2, 30})

PracticeCandidates(mv) ==
  IF "make" \in mv THEN PracticePlans \X [Chips -> {0, 1}]
  ELSE {<<vx, Zero>> : vx \in PracticePlans}

PracticeInit ==
  /\ pc = "data"
  /\ mvars = {}
  /\ constrs = {}
  /\ objective = NoObjective
  /\ x = Zero
  /\ y = Zero
  /\ status = "loaded"
  /\ z = 0
  /\ chips_data = NoData

\* re-create a new model with max total chips made obj
Recreate ==
  /\ pc = "data" /\ Idle
  /\ pc' = "recreate"
  /\ mvars' = {"chips"}
  /\ constrs' = ingredient_usage("ingredient_usage")
  /\ objective' = Objective(total_chips, "MAXIMIZE")
  /\ Unsolved
  /\ UNCHANGED <<z, chips_data>>

\* a cell that adds rows and solves
AddAndSolve(from, to, rows) ==
  /\ pc = from /\ Idle
  /\ pc' = to
  /\ constrs' = constrs \cup rows
  /\ solve_and_print_solution(PracticeCandidates(mvars), mvars, constrs', objective)
  /\ UNCHANGED <<mvars, objective, z, chips_data>>

\* a cell that adds rows and does not solve
AddRows(from, to, rows) ==
  /\ pc = from /\ Idle
  /\ pc' = to
  /\ constrs' = constrs \cup rows
  /\ Unsolved
  /\ UNCHANGED <<mvars, objective, z, chips_data>>

\* model.remove(...)
RemoveRows(from, to, rows) ==
  /\ pc = from /\ Idle
  /\ pc' = to
  /\ constrs' = constrs \ rows
  /\ Unsolved
  /\ UNCHANGED <<mvars, objective, z, chips_data>>

ValueBalance == AddAndSolve("recreate", "value_balance", value_balance)

RemoveValueBalance == RemoveRows("value_balance", "removed_balance", value_balance)

Proportions == AddAndSolve("removed_balance", "proportions", low_chip_ub \cup high_chip_lb)

Max25 == AddAndSolve("proportions", "max_25", max_25)

Percent30 == AddRows("max_25", "percent30", percent30)

RemoveProportions ==
  RemoveRows("percent30", "removed", low_chip_ub \cup high_chip_lb \cup max_25)

\* add our binary decision variables and corresponding logic
PracticeAddMake ==
  /\ pc = "removed" /\ Idle
  /\ pc' = "link_x_y"
  /\ mvars' = mvars \cup {"make"}
  /\ constrs' = constrs \cup link_x_y
  /\ Unsolved
  /\ UNCHANGED <<objective, z, chips_data>>

Logical == AddRows("link_x_y", "logical", logical)

Conditional == AddRows("logical", "conditional", conditional)

SemiInteger ==
  AddRows("conditional", "big_m", min_high_value \cup max_high_value \cup min_low_value)

PracticeNext ==
  \/ Recreate
  \/ ValueBalance
  \/ RemoveValueBalance
  \/ Proportions
  \/ Max25
  \/ Percent30
  \/ RemoveProportions
  \/ PracticeAddMake
  \/ Logical
  \/ Conditional
  \/ SemiInteger
  \/ Examine(PracticeCandidates(mvars))

SpecPractice == PracticeInit /\ [][PracticeNext]_vars

(***************************************************************************)
(* Second notebook, "DIY hierarchical multi-objective optimization".       *)
(***************************************************************************)
HierDataInputs ==
  { ChipsData(Zero, ByGroup(1, 1), ByGroup(30, 30)),
    ChipsData(Zero, ByGroup(1, 4), ByGroup(30, 64)) }

HierPlans == Grid({0, 10}, {0, 9})

HierCandidates == HierPlans \X [Chips -> {0, 1}]

\* the added row asking for a tenth more chips than the first solve made
multi_obj_more(zz) == {Row("multi_obj", "", Times(10, total_chips), ">=", 11 * zz)}

\* the added row with its sense turned round
multi_obj_at_most(zz) == {Row("multi_obj", "", Times(10, total_chips), "<=", 9 * zz)}

\* multi_obj = model.addConstr(total_chips >= 0.9*z)
multi_obj(zz) == {Row("multi_obj", "", Times(10, total_chips), ">=", 9 * zz)}

\* the rows of the first stage
first_stage ==
  ingredient_usage("ingredient_usage") \cup percent30 \cup link_x_y
  \cup {Row("t_budget", "", tCost_all_chips, "<=", 220)}

HierInit ==
  /\ pc = "data"
  /\ mvars = {}
  /\ constrs = {}
  /\ objective = NoObjective
  /\ x = Zero
  /\ y = Zero
  /\ status = "loaded"
  /\ z = 0
  /\ chips_data \in HierDataInputs

\* new model, x and y, the rows, the first objective, solve
FirstStage ==
  /\ pc = "data" /\ Idle
  /\ pc' = "first"
  /\ mvars' = {"chips", "make"}
  /\ constrs' = first_stage
  /\ objective' = Objective(total_chips, "MAXIMIZE")
  /\ solve_and_print_solution(HierCandidates, mvars', constrs', objective')
  /\ UNCHANGED <<z, chips_data>>

\* z = model.ObjVal, the added row, the second objective, solve
SecondStage ==
  /\ pc = "first" /\ status = "optimal"
  /\ pc' = "second"
  /\ z' = Eval(objective.e, x, y)
  /\ constrs' = constrs \cup multi_obj(z')
  /\ objective' = Objective(val_total_chips, "MAXIMIZE")
  /\ solve_and_print_solution(HierCandidates, mvars, constrs', objective')
  /\ UNCHANGED <<mvars, chips_data>>

HierNext ==
  \/ FirstStage
  \/ SecondStage
  \/ Examine(HierCandidates)

SpecHier == HierInit /\ [][HierNext]_vars

(***************************************************************************)
(* Claims on the first notebook.                                           *)
(***************************************************************************)
\* the amount of ingredient i the plan vx uses, in half units
Used(vx, i) ==
  recipes["one"][i] * vx["one"] + recipes["five"][i] * vx["five"]
  + recipes["ten"][i] * vx["ten"] + recipes["twenty-five"][i] * vx["twenty-five"]
  + recipes["one hundred"][i] * vx["one hundred"]
  + recipes["five hundred"][i] * vx["five hundred"]
  + recipes["thousand"][i] * vx["thousand"]

\* C1: once the ingredient usage rows are in the model, every assignment the
\* model accepts (and the one the solve returns) uses no more of any
\* ingredient than is on hand.
C1_UsageWithinOnHand ==
  (pc \in {"balance_constraints", "optimize"} /\ status \in {"feasible", "optimal"})
    => \A i \in Ingredients : Used(x, i) <= Half * on_hand[i]

\* an accepted plan that uses all the lead on hand, and one more chip is rejected
C1_Witness ==
  /\ pc = "balance_constraints"
  /\ status = "feasible"
  /\ Used(x, "lead") = Half * on_hand["lead"]
  /\ ~Feasible(mvars, constrs, Plus(x, Unit("five")), y)

(***************************************************************************)
(* Claims on the original model of the second notebook.                    *)
(***************************************************************************)
Accepts == status \in {"feasible", "optimal"}

\* "a greedy approach": the chip of highest value first
NextChip(todo) == CHOOSE c \in todo : \A d \in todo : value[d] <= value[c]

\* as many chips c as the ingredients left allow
AsManyAs(c, left) ==
  LET caps == {left[i] \div recipes[c][i] : i \in {j \in Ingredients : recipes[c][j] > 0}}
  IN  CHOOSE n \in caps : \A m \in caps : n <= m

RECURSIVE Greedy(_, _, _)
Greedy(todo, left, plan) ==
  IF todo = {} THEN plan
  ELSE LET c == NextChip(todo)
           n == AsManyAs(c, left)
       IN  Greedy(todo \ {c},
                  [i \in Ingredients |-> left[i] - n * recipes[c][i]],
                  [plan EXCEPT ![c] = n])

GreedyPlan == Greedy(Chips, [i \in Ingredients |-> Half * on_hand[i]], Zero)

C5_BigMConservative ==
  (pc = "original" /\ Accepts) =>
    /\ \A c \in Chips : x[c] <= M
    /\ \E vy \in [Chips -> {0, 1}] : \A r \in link_x_y : Holds(r, x, vy)

\* the largest accepted quantity of a single type: 384 twenty-fives, 385 are rejected
C5_Witness ==
  /\ pc = "original" /\ status = "feasible"
  /\ x = Scaled(384, Unit("twenty-five"))
  /\ ~Feasible(mvars, constrs, Scaled(385, Unit("twenty-five")), y)

(***************************************************************************)
(* Claims on the fixed-cost changes.                                       *)
(***************************************************************************)
MadeTypes(vx) == {c \in Chips : vx[c] > 0}

RECURSIVE SumOver(_, _)
SumOver(S, w) ==
  IF S = {} THEN 0 ELSE LET c == CHOOSE d \in S : TRUE IN w[c] + SumOver(S \ {c}, w)

\* C4: with the linking rows, y[c] = 1 exactly when x[c] > 0.
C4_IndicatorExact ==
  (pc \in {"link_x_y", "t_budget", "remove", "types"} /\ Accepts) =>
    \A c \in Chips : (y[c] = 1) <=> (x[c] > 0)

\* C6: with min_types and max_types, between 3 and 5 types are made.
C6_ThreeToFiveTypesMade ==
  (pc = "types" /\ Accepts) =>
    (Cardinality(MadeTypes(x)) >= 3 /\ Cardinality(MadeTypes(x)) <= 5)

\* C7: with link_x_y and t_budget, the variable cost plus the fixed costs of
\* exactly the types made is at most 280.
C7_CostOfTypesMade ==
  (pc \in {"t_budget", "remove", "types"} /\ Accepts) =>
    prod(chips_data.cost, x) + SumOver(MadeTypes(x), chips_data.fixed_cost) <= 280

\* a plan that is accepted with the whole budget spent on the types it makes
C7_Witness ==
  /\ pc = "t_budget" /\ status = "feasible"
  /\ MadeTypes(x) # {}
  /\ \A c \in Chips : chips_data.fixed_cost[c] >= 0
  /\ prod(chips_data.cost, x) + SumOver(MadeTypes(x), chips_data.fixed_cost) = 280

(***************************************************************************)
(* Claims on the practice model.                                           *)
(***************************************************************************)
Examined == status \in {"feasible", "rejected"}

\* C9: the row added for "either $500 or $1000 chips, and possibly both
\* (at least one)" is satisfied by exactly the assignments in which at least
\* one of y['five hundred'], y['thousand'] is 1.
C9_AtLeastOneHighValue ==
  (pc \in {"logical", "conditional", "big_m"} /\ Examined) =>
    \A r \in constrs :
      r.name = "at_most_one_high_value" =>
        (Holds(r, x, y) <=> (y["five hundred"] = 1 \/ y["thousand"] = 1))

\* C10: with min_high_value and max_high_value, each high-value chip is not
\* made or made in a quantity between 5 and 30.
C10_HighValueFiveToThirty ==
  (pc = "big_m" /\ Accepts) =>
    \A h \in high_chips : x[h] = 0 \/ (5 <= x[h] /\ x[h] <= 30)

(***************************************************************************)
(* Claims on the hierarchical optimisation.                                *)
(***************************************************************************)
Total(vx) ==
  vx["one"] + vx["five"] + vx["ten"] + vx["twenty-five"] + vx["one hundred"]
  + vx["five hundred"] + vx["thousand"]

\* the rows of the first stage, written out
FirstStageHolds(vx, vy) ==
  /\ \A i \in Ingredients : Used(vx, i) <= Half * on_hand[i]
  /\ \A c \in Chips : 10 * vx[c] <= 3 * Total(vx)
  /\ \A c \in Chips : vx[c] <= M * vy[c]
  /\ prod(chips_data.cost, vx) + prod(chips_data.fixed_cost, vy) <= 220
  /\ \A c \in Chips : vx[c] >= 0 /\ vy[c] \in {0, 1}

\* C8: with z the optimal number of chips of the first solve, every solution
\* of the second solve makes at least 0.9*z chips and satisfies every row of
\* the first stage.
C8_WithinTenPercent ==
  (pc = "second" /\ status = "optimal") =>
    /\ 10 * Total(x) >= 9 * z
    /\ FirstStageHolds(x, y)

\* the second solve gives up chips, fewer than a tenth, for value
C8_Witness ==
  /\ pc = "second" /\ status = "optimal"
  /\ z > 0
  /\ Total(x) < z
  /\ 10 * Total(x) >= 9 * z

(***************************************************************************)
(* Claims on the stated amounts: the semi-integer rows of the low-value    *)
(* chips and the lead on hand.                                             *)
(***************************************************************************)
\* C11: with the semi-integer rows of the low-value chips in the model, each
\* low-value chip is not made or made in a quantity of at least 100.
C11_LowValueAtLeastHundred ==
  (pc = "big_m" /\ Accepts) =>
    \A l \in low_chips : x[l] = 0 \/ x[l] >= 100

\* C12: once the lead limit is in the first model, every assignment the model
\* accepts uses at most 1500 of lead.
C12_LeadAtMost1500 ==
  (pc \in {"limits", "loop", "balance_constraints", "optimize"} /\ Accepts) =>
    Used(x, "lead") <= Half * 1500


(***************************************************************************)
(* Claims on the objective and the variables of the original model.        *)
(***************************************************************************)
\* C13: model.setObjective(total_chips, GRB.MAXIMIZE) replaces the objective
\* and leaves the variables and the rows as they were, so the assignments the
\* model accepts before and after the call are the same.
C13_SetObjectiveKeepsFeasibleSet ==
  [][(pc = "original" /\ pc' = "total_chips") =>
       /\ objective' = Objective(total_chips, "MAXIMIZE")
       /\ objective' # objective
       /\ mvars' = mvars
       /\ constrs' = constrs
       /\ \A a \in Candidates(mvars) :
            Feasible(mvars, constrs, a[1], a[2]) <=> Feasible(mvars', constrs', a[1], a[2])]_vars

\* the new objective is in force on the rows of the original model: the solve
\* returns more chips, worth less, than the recorded plan
C13_Witness ==
  /\ pc = "total_chips" /\ status = "optimal"
  /\ objective = Objective(total_chips, "MAXIMIZE")
  /\ constrs = ingredient_usage("ingredient_usage")
  /\ Total(x) > Total(recorded)
  /\ prod(value, x) < prod(value, recorded)


=============================================================================
